---- MODULE Spec2Model ----
(***************************************************************************)
(* A model of the two scripts of GreenpointStandiumScraper:                *)
(*   generate_dhl_ics.py  the calendar builder (API records -> events,     *)
(*                        First Thursdays, sort by start)                  *)
(*   test.py              the event-date scraper (regex patterns over the  *)
(*                        page text, recency filter, per-site aggregation) *)
(*                                                                         *)
(* Values of the calendar builder are records                              *)
(*   [kind, y, m, d, sec, tz]                                              *)
(* kind "none" is Python's None, "empty" the empty string, "iso" an        *)
(* ISO-8601 string "YYYY-MM-DDTHH:MM:SS<tz>", "junk" a string that is no   *)
(* timestamp, "dt" a datetime object, "arrow" an object with a .datetime   *)
(* attribute.  sec is the time of day in seconds, tz the UTC offset        *)
(* suffix: "" (none, a naive datetime), "Z" or "+02:00".                   *)
(* Event is modelled as the plain holder of what the script assigns to it. *)
(***************************************************************************)
EXTENDS Integers, Sequences, FiniteSets, TLC

VARIABLES
    \* generate_dhl_ics.py, module level and get_api_events
    resp,       \* the date ranges of the API response, flattened
    pc,         \* "api" | "thursdays" | "sort" | "done" | "aborted" | "idle"
    i,          \* index of the next date range
    events,     \* all_events
    err,        \* the exception that aborted the run, "" if none
    \* add_first_thursdays
    years, yi, month, dt, thEvents, thPc,
    \* test.py, one extractor call
    site,       \* index of the extractor in fetch_all_events' list
    page,       \* what the site answers
    outcome,    \* what the extractor returned or raised
    sPc,        \* "call" | "returned" | "idle"
    \* test.py, fetch_all_events
    fn,         \* index of the next extractor
    results,    \* the list fetch_all_events builds
    calls,      \* how often each extractor has been called
    seen,       \* the outcome of each extractor called so far
    rPc         \* "loop" | "done" | "aborted" | "idle"

calVars == <<resp, pc, i, events, err>>
thuVars == <<years, yi, month, dt, thEvents, thPc>>
siteVars == <<site, page, outcome, sPc>>
runVars == <<fn, results, calls, seen, rPc>>
vars == <<resp, pc, i, events, err, years, yi, month, dt, thEvents, thPc,
          site, page, outcome, sPc, fn, results, calls, seen, rPc>>

----------------------------------------------------------------------------
\* Bounds

\* datetime.now().year
Now == 2025
\* number of date ranges in the API response
MaxRanges == 2
\* length of the list given to add_first_thursdays
MaxYears == 2
\* number of phrases in a page text
MaxPhrases == 2

----------------------------------------------------------------------------
\* The proleptic Gregorian calendar of datetime

IsLeap(y) == (y % 4 = 0) /\ ((y % 100 # 0) \/ (y % 400 = 0))

DaysInMonth(y, m) ==
    IF m = 2 THEN (IF IsLeap(y) THEN 29 ELSE 28)
    ELSE IF m \in {4, 6, 9, 11} THEN 30 ELSE 31

RECURSIVE DaysBeforeMonth(_, _)
DaysBeforeMonth(y, m) ==
    IF m = 1 THEN 0 ELSE DaysBeforeMonth(y, m - 1) + DaysInMonth(y, m - 1)

DaysBeforeYear(y) ==
    LET p == y - 1 IN p * 365 + (p \div 4) - (p \div 100) + (p \div 400)

\* date.toordinal(): 1 for 0001-01-01
Ordinal(y, m, d) == DaysBeforeYear(y) + DaysBeforeMonth(y, m) + d

\* datetime.weekday(): Monday is 0, Thursday is 3
Weekday(t) == (Ordinal(t.y, t.m, t.d) + 6) % 7

\* dt + timedelta(days=1)
NextDay(t) ==
    IF t.d < DaysInMonth(t.y, t.m) THEN [t EXCEPT !.d = t.d + 1]
    ELSE IF t.m < 12 THEN [t EXCEPT !.m = t.m + 1, !.d = 1]
    ELSE [t EXCEPT !.y = t.y + 1, !.m = 1, !.d = 1]

Val(k, y, m, d, s, z) == [kind |-> k, y |-> y, m |-> m, d |-> d, sec |-> s, tz |-> z]
None == Val("none", 0, 0, 0, 0, "")
EmptyStr == Val("empty", 0, 0, 0, 0, "")
Junk == Val("junk", 0, 0, 0, 0, "")
\* datetime(year, month, day): a naive datetime at midnight
Datetime(y, m, d) == Val("dt", y, m, d, 0, "")
\* datetime.max, a naive datetime
DatetimeMax == Val("dt", 9999, 12, 31, 86399, "")

SecOfDay(h, mi, s) == h * 3600 + mi * 60 + s

\* The UTC offset a suffix stands for, in seconds
OffsetOf(z) == IF z = "+02:00" THEN 7200 ELSE 0

\* The point in time of a zoned value, or the wall-clock reading of a naive
\* one, as <<day, second of the day>> in UTC
Instant(t) ==
    LET s == t.sec - OffsetOf(t.tz)
        o == Ordinal(t.y, t.m, t.d)
    IN  IF s < 0 THEN <<o - 1, s + 86400>> ELSE <<o, s>>

InstantLess(a, b) ==
    LET p == Instant(a)
        q == Instant(b)
    IN  p[1] < q[1] \/ (p[1] = q[1] /\ p[2] < q[2])

InstantLeq(a, b) == ~InstantLess(b, a)

IsAware(t) == t.tz # ""

----------------------------------------------------------------------------
\* add_first_thursdays

\* lines 24-31: the event of the day the scan stopped at
ThursdayEvent(t) ==
    [begin |-> [t EXCEPT !.sec = SecOfDay(16, 0, 0)],
     end   |-> [t EXCEPT !.sec = SecOfDay(23, 0, 0)],
     src   |-> 0]

IsThursdayMut(t) == Weekday(t) = 4

\* line 22: the loop's exit test
IsThursday(t) == Weekday(t) = 3

\* lines 21-23 as a function: scan forward from the 1st
RECURSIVE ScanToThursday(_)
ScanToThursday(t) == IF IsThursday(t) THEN t ELSE ScanToThursday(NextDay(t))

RECURSIVE MonthsFrom(_, _)
MonthsFrom(y, m) ==
    IF m > 12 THEN <<>>
    ELSE <<ThursdayEvent(ScanToThursday(Datetime(y, m, 1)))>> \o MonthsFrom(y, m + 1)

\* add_first_thursdays(years) as the module calls it
RECURSIVE add_first_thursdays(_)
add_first_thursdays(ys) ==
    IF ys = <<>> THEN <<>>
    ELSE MonthsFrom(Head(ys), 1) \o add_first_thursdays(Tail(ys))

\* The same function, one loop iteration per step
ThuStart ==
    /\ thPc = "month"
    /\ yi <= Len(years)
    /\ dt' = Datetime(years[yi], month, 1)
    /\ thPc' = "scan"
    /\ UNCHANGED <<years, yi, month, thEvents>>
    /\ UNCHANGED <<calVars, siteVars, runVars>>

ThuScan ==
    /\ thPc = "scan"
    /\ ~IsThursday(dt)
    /\ dt' = NextDay(dt)
    /\ UNCHANGED <<years, yi, month, thEvents, thPc>>
    /\ UNCHANGED <<calVars, siteVars, runVars>>

ThuEmit ==
    /\ thPc = "scan"
    /\ IsThursday(dt)
    /\ thEvents' = Append(thEvents, ThursdayEvent(dt))
    /\ IF month < 12
       THEN month' = month + 1 /\ yi' = yi
       ELSE month' = 1 /\ yi' = yi + 1
    /\ thPc' = "month"
    /\ UNCHANGED <<years, dt>>
    /\ UNCHANGED <<calVars, siteVars, runVars>>

ThuReturn ==
    /\ thPc = "month"
    /\ yi > Len(years)
    /\ thPc' = "done"
    /\ UNCHANGED <<years, yi, month, dt, thEvents>>
    /\ UNCHANGED <<calVars, siteVars, runVars>>

----------------------------------------------------------------------------
\* get_api_events

\* Python truthiness of dr.get("start") / dr.get("end")
Truthy(v) == v.kind \notin {"none", "empty"}

\* The place of a UTC-offset suffix in string order: "" < "+02:00" < "Z"
SuffixRank(z) == IF z = "" THEN 0 ELSE IF z = "+02:00" THEN 1 ELSE 2

\* A string as the sequence its characters compare by: the empty string is
\* below everything, the junk string "(TBC)" below every digit, and ISO
\* strings of one layout compare field by field, the suffix last.
StrKey(s) ==
    IF s.kind = "empty" THEN <<0>>
    ELSE IF s.kind = "junk" THEN <<1>>
    ELSE <<2, s.y, s.m, s.d, s.sec, SuffixRank(s.tz)>>

RECURSIVE LexLeq(_, _)
LexLeq(a, b) ==
    IF a = <<>> THEN TRUE
    ELSE IF b = <<>> THEN FALSE
    ELSE IF Head(a) < Head(b) THEN TRUE
    ELSE IF Head(a) > Head(b) THEN FALSE
    ELSE LexLeq(Tail(a), Tail(b))

\* line 56: end <= start, on two str
StrLeq(a, b) == LexLeq(StrKey(a), StrKey(b))

\* line 57: datetime.fromisoformat(start.replace("Z", "+00:00"))
FromIsoformat(s) == Val("dt", s.y, s.m, s.d, s.sec, s.tz)

\* line 58: start_dt.replace(hour=23, minute=59, second=59)
EndOfDay(t) == [t EXCEPT !.sec = SecOfDay(23, 59, 59)]

\* lines 51-63, one date range: the exception raised ("" if none) and the
\* event appended
NormalizeRange(dr, k) ==
    LET start == dr.start
        end == dr.end
        begin == IF Truthy(start) THEN start ELSE None
    IN  IF Truthy(end) /\ start.kind = "none"
        THEN [err |-> "TypeError", ev |-> None]
        ELSE IF ~Truthy(end) \/ StrLeq(end, start)
        THEN IF start.kind = "none"
             THEN [err |-> "AttributeError", ev |-> None]
             ELSE IF start.kind # "iso"
             THEN [err |-> "ValueError", ev |-> None]
             ELSE [err |-> "",
                   ev |-> [begin |-> begin,
                           end |-> EndOfDay(FromIsoformat(start)),
                           src |-> k]]
        ELSE [err |-> "", ev |-> [begin |-> begin, end |-> end, src |-> k]]

\* One iteration of the loop of line 48
get_api_events ==
    /\ pc = "api"
    /\ i <= Len(resp)
    /\ LET r == NormalizeRange(resp[i], i) IN
         IF r.err # ""
         THEN /\ err' = r.err
              /\ pc' = "aborted"
              /\ UNCHANGED <<events, i>>
         ELSE /\ events' = Append(events, r.ev)
              /\ i' = i + 1
              /\ UNCHANGED <<err, pc>>
    /\ UNCHANGED resp
    /\ UNCHANGED <<thuVars, siteVars, runVars>>

\* line 84: all_events = get_api_events(resp) + add_first_thursdays([now, now+1])
AddThursdays ==
    /\ pc = "api"
    /\ i > Len(resp)
    /\ events' = events \o add_first_thursdays(<<Now, Now + 1>>)
    /\ pc' = "sort"
    /\ UNCHANGED <<resp, i, err>>
    /\ UNCHANGED <<thuVars, siteVars, runVars>>

----------------------------------------------------------------------------
\* get_event_start_dt and the sort

SentinelMut == Val("dt", 1, 1, 1, 0, "")

\* lines 78-79: what an unparseable or missing start sorts by
Sentinel == DatetimeMax

\* lines 66-79
get_event_start_dt(e) ==
    LET begin == e.begin IN
    IF begin.kind = "arrow" THEN Val("dt", begin.y, begin.m, begin.d, begin.sec, "Z")
    ELSE IF begin.kind = "dt" THEN begin
    ELSE IF begin.kind \in {"iso", "junk", "empty"}
    THEN (IF begin.kind = "iso"
          THEN Val("dt", begin.y, begin.m, begin.d, begin.sec, begin.tz)
          ELSE Sentinel)
    ELSE Sentinel

\* datetime.__lt__ on two naive or two aware datetimes
KeyLess(a, b) == InstantLess(a, b)

\* datetime comparison raises TypeError between a naive and an aware datetime;
\* a sort of a list holding both kinds of key has to compare one such pair
KeysComparable(es) ==
    \A a, b \in 1..Len(es) :
        IsAware(get_event_start_dt(es[a])) = IsAware(get_event_start_dt(es[b]))

\* e put behind the last element of the sorted s whose key is not above its own
RECURSIVE InsertByKey(_, _)
InsertByKey(s, e) ==
    IF s = <<>> THEN <<e>>
    ELSE IF KeyLess(get_event_start_dt(e), get_event_start_dt(s[Len(s)]))
    THEN Append(InsertByKey(SubSeq(s, 1, Len(s) - 1), e), s[Len(s)])
    ELSE Append(s, e)

\* list.sort(key=get_event_start_dt): stable, ascending
RECURSIVE SortByKey(_)
SortByKey(s) ==
    IF s = <<>> THEN <<>>
    ELSE InsertByKey(SortByKey(SubSeq(s, 1, Len(s) - 1)), s[Len(s)])

\* line 86
SortEvents ==
    /\ pc = "sort"
    /\ IF KeysComparable(events)
       THEN /\ events' = SortByKey(events)
            /\ pc' = "done"
            /\ err' = err
       ELSE /\ err' = "TypeError"
            /\ pc' = "aborted"
            /\ events' = events
    /\ UNCHANGED <<resp, i>>
    /\ UNCHANGED <<thuVars, siteVars, runVars>>

----------------------------------------------------------------------------
\* test.py: the page text and the patterns
\*
\* html_to_text leaves words separated by single blanks.  The text is
\* modelled as the sequence of its words, each one of
\*   day    a run of one or two digits, n its value, with or without an
\*          ordinal suffix (suf)
\*   year   a run of four digits 20xx, n its value
\*   mon    a month name or abbreviation MONTHS_REGEX accepts, n its number
\*   sep    a range marker SEP_REGEX accepts
\*   of     the word "of"
\*   comma  a comma
\*   word   any other word
\* and a compiled pattern as its shape and the months its month groups accept.

Tok(k, n, suf) == [k |-> k, n |-> n, suf |-> suf]
EndOfText == Tok("eot", 0, "")

At(text, p) == IF p \in 1..Len(text) THEN text[p] ELSE EndOfText

\* (?P<d1>\d{1,2}) where the match starts: \d{1,2} is not anchored on the
\* left, so the last two digits of a year are taken as a day as well
StartDay(t) ==
    IF t.k = "day" THEN t.n ELSE IF t.k = "year" THEN t.n % 100 ELSE -1

\* (?P<d1>\d{1,2})(?:st|nd|rd|th)? inside a pattern: what follows must be the
\* suffix, blanks or the next element, so the run of digits is one or two long
InnerDay(t) == IF t.k = "day" THEN t.n ELSE -1

\* (?P<year>20\d{2})
YearOf(t) == IF t.k = "year" /\ t.n \in 2000..2099 THEN t.n ELSE -1

MonthOf(t, months) == IF t.k = "mon" /\ t.n \in months THEN t.n ELSE -1

\* an optional element: (?:of\s+)? and \s*,?\s*
SkipOpt(text, p, k) == IF At(text, p).k = k THEN p + 1 ELSE p

NoMatch == [ok |-> FALSE, d1 |-> -1, d2 |-> -1, mon |-> -1, mon1 |-> -1, mon2 |-> -1, year |-> -1]

Groups(d1, d2, mon, mon1, mon2, year) ==
    IF \A g \in {d1, year} : g >= 0
    THEN [ok |-> TRUE, d1 |-> d1, d2 |-> d2, mon |-> mon, mon1 |-> mon1, mon2 |-> mon2, year |-> year]
    ELSE NoMatch

AllMonths == 1..12

Pat(shape, m1, m2) == [shape |-> shape, m1 |-> m1, m2 |-> m2]

\* d1 mon1 SEP d2 mon2 ,? year
MatchCross(pat, text, p) ==
    LET mon1 == MonthOf(At(text, p + 1), pat.m1)
        d2 == InnerDay(At(text, p + 3))
        mon2 == MonthOf(At(text, p + 4), pat.m2)
        q == SkipOpt(text, p + 5, "comma")
    IN  IF mon1 >= 0 /\ At(text, p + 2).k = "sep" /\ d2 >= 0 /\ mon2 >= 0
        THEN Groups(StartDay(At(text, p)), d2, -1, mon1, mon2, YearOf(At(text, q)))
        ELSE NoMatch

\* d1 SEP d2 (of)? mon ,? year
MatchRange(pat, text, p) ==
    LET d2 == InnerDay(At(text, p + 2))
        q == SkipOpt(text, p + 3, "of")
        mon == MonthOf(At(text, q), pat.m1)
        r == SkipOpt(text, q + 1, "comma")
    IN  IF At(text, p + 1).k = "sep" /\ d2 >= 0 /\ mon >= 0
        THEN Groups(StartDay(At(text, p)), d2, mon, -1, -1, YearOf(At(text, r)))
        ELSE NoMatch

\* mon d1 SEP d2 ,? year
MatchMonthFirstRange(pat, text, p) ==
    LET mon == MonthOf(At(text, p), pat.m1)
        d2 == InnerDay(At(text, p + 3))
        q == SkipOpt(text, p + 4, "comma")
    IN  IF mon >= 0 /\ At(text, p + 2).k = "sep" /\ d2 >= 0
        THEN Groups(InnerDay(At(text, p + 1)), d2, mon, -1, -1, YearOf(At(text, q)))
        ELSE NoMatch

\* d1 (of)? mon ,? year
MatchSingle(pat, text, p) ==
    LET q == SkipOpt(text, p + 1, "of")
        mon == MonthOf(At(text, q), pat.m1)
        r == SkipOpt(text, q + 1, "comma")
    IN  IF mon >= 0
        THEN Groups(StartDay(At(text, p)), -1, mon, -1, -1, YearOf(At(text, r)))
        ELSE NoMatch

\* mon d1 ,? year
MatchMonthFirstSingle(pat, text, p) ==
    LET mon == MonthOf(At(text, p), pat.m1)
        q == SkipOpt(text, p + 2, "comma")
    IN  IF mon >= 0
        THEN Groups(InnerDay(At(text, p + 1)), -1, mon, -1, -1, YearOf(At(text, q)))
        ELSE NoMatch

MatchAt(pat, text, p) ==
    CASE pat.shape = "cross" -> MatchCross(pat, text, p)
      [] pat.shape = "range" -> MatchRange(pat, text, p)
      [] pat.shape = "mfirst" -> MatchMonthFirstRange(pat, text, p)
      [] pat.shape = "single" -> MatchSingle(pat, text, p)
      [] pat.shape = "msingle" -> MatchMonthFirstSingle(pat, text, p)

\* pat.search(text) and m.groupdict(): the leftmost match
Search(pat, text) ==
    LET hits == {p \in 1..Len(text) : MatchAt(pat, text, p).ok}
    IN  IF hits = {} THEN NoMatch
        ELSE MatchAt(pat, text, CHOOSE p \in hits : \A q \in hits : p <= q)

GenericPatternsMut ==
    <<Pat("single", AllMonths, {}),
      Pat("cross", AllMonths, AllMonths),
      Pat("range", AllMonths, {}),
      Pat("mfirst", AllMonths, {}),
      Pat("msingle", AllMonths, {})>>

\* generic_date_hunt, lines 120-147
GenericPatterns ==
    <<Pat("cross", AllMonths, AllMonths),
      Pat("range", AllMonths, {}),
      Pat("mfirst", AllMonths, {}),
      Pat("single", AllMonths, {}),
      Pat("msingle", AllMonths, {})>>

\* the extractors in the order of fetch_all_events' list, each with the
\* patterns it hands to fetch_site
Extractors ==
    <<[name |-> "Cape Town Cycle Tour",
       patterns |-> <<Pat("range", {3}, {}), Pat("single", {3}, {})>>],
      [name |-> "Two Oceans Marathon", patterns |-> <<Pat("range", {4}, {})>>],
      [name |-> "Sanlam Cape Town Marathon", patterns |-> <<Pat("range", {10}, {})>>],
      [name |-> "Absa Cape Epic", patterns |-> <<Pat("range", {3}, {})>>],
      [name |-> "The Gun Run", patterns |-> <<Pat("range", {9}, {})>>],
      [name |-> "Cape Town Carnival", patterns |-> <<Pat("single", {3}, {})>>],
      [name |-> "Knysna Cycle Tour", patterns |-> <<Pat("cross", {6}, {7})>>]>>

----------------------------------------------------------------------------
\* test.py: extraction

is_recent_dateMut(year) == year <= Now + 1

\* lines 55-58
is_recent_date(year) == Now <= year /\ year <= Now + 1

NoDate == <<0, 0, 0>>

\* lines 77-82: the date of the tokens, NoDate when dateutil raises (a day
\* the month does not have)
parse_iso_date(day, mon, year) ==
    IF day \in 1..DaysInMonth(year, mon) THEN <<year, mon, day>> ELSE NoDate

Miss(tried) == [kind |-> "miss", start |-> NoDate, end |-> NoDate, at |-> 0, tried |-> tried]
Raise(k) == [kind |-> "raise", start |-> NoDate, end |-> NoDate, at |-> k, tried |-> k]

\* lines 102-104, 108-110, 114-115: both dates are converted before the
\* return, and a conversion that raises leaves try_patterns
Dates(k, start, end) ==
    IF start = NoDate \/ end = NoDate THEN Raise(k)
    ELSE [kind |-> "hit", start |-> start, end |-> end, at |-> k, tried |-> k]

\* lines 100-115: the dates of the k-th pattern's groups; a "miss" when the
\* groups are of none of the three kinds
DatesOfGroups(k, gd) ==
    IF gd.d1 >= 0 /\ gd.mon1 >= 0 /\ gd.d2 >= 0 /\ gd.mon2 >= 0
    THEN Dates(k, parse_iso_date(gd.d1, gd.mon1, gd.year),
                  parse_iso_date(gd.d2, gd.mon2, gd.year))
    ELSE IF gd.d1 >= 0 /\ gd.d2 >= 0 /\ gd.mon >= 0
    THEN Dates(k, parse_iso_date(gd.d1, gd.mon, gd.year),
                  parse_iso_date(gd.d2, gd.mon, gd.year))
    ELSE IF gd.d1 >= 0 /\ gd.mon >= 0
    THEN Dates(k, parse_iso_date(gd.d1, gd.mon, gd.year),
                  parse_iso_date(gd.d1, gd.mon, gd.year))
    ELSE Miss(k)

\* lines 88-98: whether the loop body reaches the conversion
Accepted(gd) == gd.ok /\ is_recent_date(gd.year)

\* lines 86-116, from the k-th pattern on
RECURSIVE TryFrom(_, _, _)
TryFrom(text, patterns, k) ==
    IF k > Len(patterns) THEN Miss(Len(patterns))
    ELSE IF ~Accepted(Search(patterns[k], text)) THEN TryFrom(text, patterns, k + 1)
    ELSE IF DatesOfGroups(k, Search(patterns[k], text)).kind = "miss"
    THEN TryFrom(text, patterns, k + 1)
    ELSE DatesOfGroups(k, Search(patterns[k], text))

\* lines 84-116
try_patterns(text, patterns) == TryFrom(text, patterns, 1)

\* lines 118-148
generic_date_hunt(text) == try_patterns(text, GenericPatterns)

\* What an extractor call ends in: None, a record, or an exception.  which is
\* the place of the winning pattern in site patterns followed by generic
\* patterns, tried the number of patterns that were searched for.
Returned(kind, name, hit, which, tried) ==
    [kind |-> kind, name |-> name, dated |-> hit.kind = "hit",
     start |-> hit.start, end |-> hit.end, which |-> which, tried |-> tried]

\* lines 60-68 and 156-158: the page is "fail" when the request raises or the
\* status is an error, "empty" when the body is empty
safe_get(pg) == IF pg.kind = "page" THEN pg.text ELSE <<>>

\* lines 167-173
Fallback(name, n, gen) ==
    IF gen.kind = "raise" THEN Returned("error", name, gen, n + gen.at, n + gen.tried)
    ELSE IF gen.kind = "hit" THEN Returned("record", name, gen, n + gen.at, n + gen.tried)
    ELSE Returned("record", name, gen, 0, n + gen.tried)

\* lines 161-173
SiteFirst(name, n, own, text) ==
    IF own.kind = "raise" THEN Returned("error", name, own, own.at, own.tried)
    ELSE IF own.kind = "hit" THEN Returned("record", name, own, own.at, own.tried)
    ELSE Fallback(name, n, generic_date_hunt(text))

\* lines 154-173
fetch_site(name, site_patterns, pg) ==
    IF pg.kind # "page" THEN Returned("none", name, Miss(0), 0, 0)
    ELSE SiteFirst(name, Len(site_patterns),
                   try_patterns(safe_get(pg), site_patterns), safe_get(pg))

\* lines 175-216: the k-th extractor
Extract(k, pg) == fetch_site(Extractors[k].name, Extractors[k].patterns, pg)

\* One extractor called on one page
CallExtractor ==
    /\ sPc = "call"
    /\ outcome' = Extract(site, page)
    /\ sPc' = "returned"
    /\ UNCHANGED <<site, page>>
    /\ UNCHANGED <<calVars, thuVars, runVars>>

----------------------------------------------------------------------------
\* Page texts

D(n) == Tok("day", n, "")
Dth(n) == Tok("day", n, "th")
M(n) == Tok("mon", n, "")
Y(n) == Tok("year", n, "")
S == Tok("sep", 0, "")
Of == Tok("of", 0, "")
Cm == Tok("comma", 0, "")
W == Tok("word", 0, "")

\* Date phrases of every shape: in and out of the accepted years, with days
\* their month has and does not have, in and against calendar order; and
\* loose words
Phrases ==
    {<<D(1), M(3), Y(Now)>>,
     <<Dth(31), Of, M(6), Cm, Y(Now)>>,
     <<D(1), M(3), Y(Now - 1)>>,
     <<D(1), M(6), Y(Now + 2)>>,
     <<M(3), D(1), Y(Now)>>,
     <<M(6), Dth(31), Cm, Y(Now + 1)>>,
     <<D(1), S, D(31), M(3), Y(Now)>>,
     <<D(31), S, D(1), Of, M(3), Y(Now + 1)>>,
     <<D(1), S, D(31), M(6), Y(Now)>>,
     <<D(1), S, D(31), M(3), Y(Now - 1)>>,
     <<M(3), D(1), S, D(31), Cm, Y(Now)>>,
     <<M(7), D(31), S, D(1), Y(Now)>>,
     <<D(31), M(3), S, D(1), M(6), Y(Now)>>,
     <<D(1), M(6), S, D(31), M(7), Y(Now + 1)>>,
     <<D(31), M(7), S, D(1), M(6), Y(Now)>>,
     <<D(31), M(6), S, D(1), M(7), Y(Now)>>,
     <<D(1), M(6), S, D(31), M(7), Y(Now - 1)>>,
     <<W>>, <<Y(Now)>>, <<M(3), Y(Now)>>, <<S>>, <<D(1)>>}

RECURSIVE TextsOf(_)
TextsOf(n) ==
    IF n = 0 THEN {<<>>}
    ELSE LET shorter == TextsOf(n - 1)
         IN shorter \cup {t \o ph : t \in shorter, ph \in Phrases}

PageOf(text) == [kind |-> "page", text |-> text]
FailedPage == [kind |-> "fail", text |-> <<>>]
EmptyPage == [kind |-> "empty", text |-> <<>>]

Pages == {FailedPage, EmptyPage} \cup {PageOf(t) : t \in TextsOf(MaxPhrases)}

\* What a site may answer during a run of fetch_all_events: no answer, a page
\* without a date, a page with one, a page whose date does not exist
RunPages ==
    {FailedPage,
     PageOf(<<W>>),
     PageOf(<<D(1), S, D(31), M(3), Y(Now)>>),
     PageOf(<<D(31), M(6), Y(Now)>>)}

----------------------------------------------------------------------------
\* test.py: fetch_all_events

OnExtractorErrorMut == "aborted"

\* lines 239-240: the except clause logs, and the loop goes on
OnExtractorError == "loop"

\* lines 234-240: the try block on what the extractor returned or raised
TryBlock(data) ==
    /\ calls' = [calls EXCEPT ![fn] = @ + 1]
    /\ seen' = Append(seen, data.kind)
    /\ results' = IF data.kind = "record" THEN Append(results, data) ELSE results
    /\ IF data.kind = "error"
       THEN /\ rPc' = OnExtractorError
            /\ fn' = IF OnExtractorError = "loop" THEN fn + 1 ELSE fn
       ELSE /\ rPc' = "loop"
            /\ fn' = fn + 1

\* lines 233-240, one iteration on what the site answers now
fetch_all_events ==
    /\ rPc = "loop"
    /\ fn <= Len(Extractors)
    /\ \E pg \in RunPages : TryBlock(Extract(fn, pg))
    /\ UNCHANGED <<calVars, thuVars, siteVars>>

\* line 241
RunReturn ==
    /\ rPc = "loop"
    /\ fn > Len(Extractors)
    /\ rPc' = "done"
    /\ UNCHANGED <<fn, results, calls, seen>>
    /\ UNCHANGED <<calVars, thuVars, siteVars>>

----------------------------------------------------------------------------
\* The calendar builder on every API response within the bounds

Iso(m, d, h, z) == Val("iso", Now, m, d, SecOfDay(h, 0, 0), z)

Starts ==
    {None, EmptyStr, Junk,
     Iso(10, 18, 9, "Z"), Iso(10, 18, 9, ""), Iso(3, 5, 9, "")}

Ends ==
    {None, Iso(10, 18, 10, "+02:00"), Iso(10, 18, 8, "Z"),
     Iso(10, 18, 10, ""), Iso(10, 18, 8, "")}

DateRanges == [start : Starts, end : Ends]

RECURSIVE SeqsUpTo(_, _)
SeqsUpTo(Elems, n) ==
    IF n = 0 THEN {<<>>}
    ELSE LET shorter == SeqsUpTo(Elems, n - 1)
         IN shorter \cup {Append(q, x) : q \in {t \in shorter : Len(t) = n - 1}, x \in Elems}

ThuIdle ==
    /\ years = <<>> /\ yi = 1 /\ month = 1 /\ dt = None
    /\ thEvents = <<>> /\ thPc = "idle"

CalIdle ==
    /\ resp = <<>> /\ pc = "idle" /\ i = 1 /\ events = <<>> /\ err = ""

NoOutcome == Returned("none", "", Miss(0), 0, 0)

SiteIdle ==
    /\ site = 1 /\ page = FailedPage /\ outcome = NoOutcome /\ sPc = "idle"

RunIdle ==
    /\ fn = 1 /\ results = <<>> /\ calls = [k \in 1..Len(Extractors) |-> 0]
    /\ seen = <<>> /\ rPc = "idle"

InitCal ==
    /\ resp \in SeqsUpTo(DateRanges, MaxRanges)
    /\ pc = "api" /\ i = 1 /\ events = <<>> /\ err = ""
    /\ ThuIdle /\ SiteIdle /\ RunIdle

NextCal == get_api_events \/ AddThursdays \/ SortEvents

SpecCal == InitCal /\ [][NextCal]_vars

----------------------------------------------------------------------------
\* add_first_thursdays on every list of years within the bounds

YearPool == (Now - 1) .. (Now + 3)

InitThu ==
    /\ years \in SeqsUpTo(YearPool, MaxYears)
    /\ yi = 1 /\ month = 1 /\ dt = None /\ thEvents = <<>> /\ thPc = "month"
    /\ CalIdle /\ SiteIdle /\ RunIdle

NextThu == ThuStart \/ ThuScan \/ ThuEmit \/ ThuReturn

SpecThu == InitThu /\ [][NextThu]_vars /\ WF_vars(NextThu)

----------------------------------------------------------------------------
\* One extractor on every page within the bounds

InitSite ==
    /\ site \in 1..Len(Extractors)
    /\ page \in Pages
    /\ outcome = NoOutcome
    /\ sPc = "call"
    /\ CalIdle /\ ThuIdle /\ RunIdle

NextSite == CallExtractor

SpecSite == InitSite /\ [][NextSite]_vars

----------------------------------------------------------------------------
\* fetch_all_events on every combination of answers

InitRun ==
    /\ fn = 1 /\ results = <<>> /\ calls = [k \in 1..Len(Extractors) |-> 0]
    /\ seen = <<>> /\ rPc = "loop"
    /\ CalIdle /\ ThuIdle /\ SiteIdle

NextRun == fetch_all_events \/ RunReturn

SpecRun == InitRun /\ [][NextRun]_vars

----------------------------------------------------------------------------
\* Claims about the calendar builder

ApiEvents == {k \in 1..Len(events) : events[k].src > 0}

IsTimestamp(v) == v.kind \in {"iso", "dt", "arrow"}

\* Two values that denote points in time on one scale
Comparable(a, b) == IsTimestamp(a) /\ IsTimestamp(b) /\ IsAware(a) = IsAware(b)

\* C1: every event get_api_events emits has an end, and the end is not
\* earlier than the start when the two are compared as points in time
C1_EndPresentNotBeforeStart ==
    \A k \in ApiEvents :
        /\ events[k].end.kind # "none"
        /\ Comparable(events[k].begin, events[k].end)
               => InstantLeq(events[k].begin, events[k].end)

\* 23:59:59 on the calendar day of the start, in the start's timezone
LastSecondOfDay(start) == Val("dt", start.y, start.m, start.d, 86399, start.tz)

\* C2: for a date range with a start, the emitted end is 23:59:59 of the
\* start's day when the end is missing or not later in time than the start,
\* and the source end unchanged otherwise
C2_EndDefaultedOrKept ==
    \A k \in ApiEvents :
        LET dr == resp[events[k].src] IN
        (dr.start.kind = "iso" /\ (~Truthy(dr.end) \/ Comparable(dr.start, dr.end)))
            => IF ~Truthy(dr.end) \/ ~InstantLess(dr.start, dr.end)
               THEN events[k].end = LastSecondOfDay(dr.start)
               ELSE events[k].end = dr.end

\* C3: a date range whose start is absent is skipped: it emits no event and
\* raises no error
C3_AbsentStartSkipped ==
    \A k \in 1..Len(resp) :
        ~Truthy(resp[k].start)
            => /\ \A e \in ApiEvents : events[e].src # k
               /\ ~(pc = "aborted" /\ i = k)

Parseable(e) == IsTimestamp(e.begin)

----------------------------------------------------------------------------
\* Claims about add_first_thursdays

ThuResultOk ==
    /\ Len(thEvents) = 12 * Len(years)
    /\ \A k \in 1..Len(thEvents) :
          LET e == thEvents[k] IN
          /\ e.begin.y = years[((k - 1) \div 12) + 1]
          /\ e.begin.m = ((k - 1) % 12) + 1
          /\ e.begin.d \in 1..7
          /\ Weekday(e.begin) = 3
          /\ e.begin.sec = 16 * 3600
          /\ e.end.sec = 23 * 3600
          /\ <<e.end.y, e.end.m, e.end.d>> = <<e.begin.y, e.begin.m, e.begin.d>>

\* C10: for every list of years add_first_thursdays returns, and what it
\* returns is 12 events per year in month order, each on the first Thursday
\* of its month, from 16:00 to 23:00 of that day
C10_FirstThursdays ==
    /\ [](thPc = "done" => ThuResultOk)
    /\ <>(thPc = "done")

C10_Witness ==
    /\ thPc = "done"
    /\ Len(years) = 2
    /\ years[1] > years[2]
    /\ Len(thEvents) = 24

----------------------------------------------------------------------------
\* Claims about the scraper

Returns == sPc = "returned"

DateLeq(a, b) ==
    \/ a[1] < b[1]
    \/ a[1] = b[1] /\ a[2] < b[2]
    \/ a[1] = b[1] /\ a[2] = b[2] /\ a[3] <= b[3]

\* The priority order the claims state: the site's own patterns, then cross-
\* month range, single-month range, month-first range, day-first single day,
\* month-first single day
ClaimedOrder(k) ==
    Extractors[k].patterns \o
    <<Pat("cross", AllMonths, AllMonths), Pat("range", AllMonths, {}),
      Pat("mfirst", AllMonths, {}), Pat("single", AllMonths, {}),
      Pat("msingle", AllMonths, {})>>

\* The patterns that match the text with a year of this year or the next
Usable(k, text) ==
    {j \in 1..Len(ClaimedOrder(k)) :
        LET gd == Search(ClaimedOrder(k)[j], text)
        IN  gd.ok /\ gd.year \in {Now, Now + 1}}

FirstUsable(k, text) == CHOOSE j \in Usable(k, text) : \A h \in Usable(k, text) : j <= h

\* The dates a match stands for
StartOfGroups(gd) == <<gd.year, IF gd.mon1 >= 0 THEN gd.mon1 ELSE gd.mon, gd.d1>>
EndOfGroups(gd) ==
    <<gd.year, IF gd.mon2 >= 0 THEN gd.mon2 ELSE gd.mon, IF gd.d2 >= 0 THEN gd.d2 ELSE gd.d1>>

\* C5: every date the extraction returns is of a match whose captured year is
\* the current year or the next
C5_OnlyRecentYears ==
    (Returns /\ outcome.dated) =>
        LET gd == Search(ClaimedOrder(site)[outcome.which], page.text) IN
        /\ gd.ok
        /\ gd.year \in {Now, Now + 1}
        /\ outcome.start[1] = gd.year
        /\ outcome.end[1] = gd.year

C5_Witness ==
    /\ Returns /\ outcome.dated
    /\ outcome.start[1] = Now + 1
    /\ \E j \in 1..(outcome.which - 1) :
          LET gd == Search(ClaimedOrder(site)[j], page.text)
          IN  gd.ok /\ gd.year < Now

\* C6: the dates fetch_site reports are those of the first pattern, in the
\* claimed order, that matches with a year that passes the recency filter; no
\* pattern behind it is tried, and a pattern before it whose match fails the
\* filter does not keep it from being tried
C6_FirstUsablePatternWins ==
    (Returns /\ outcome.kind = "record") =>
        IF Usable(site, page.text) = {}
        THEN ~outcome.dated /\ outcome.tried = Len(ClaimedOrder(site))
        ELSE LET j == FirstUsable(site, page.text)
                 gd == Search(ClaimedOrder(site)[j], page.text)
             IN  /\ outcome.dated
                 /\ outcome.which = j
                 /\ outcome.tried = j
                 /\ outcome.start = StartOfGroups(gd)
                 /\ outcome.end = EndOfGroups(gd)

C6_Witness ==
    /\ Returns /\ outcome.kind = "record" /\ outcome.dated
    /\ outcome.which > Len(Extractors[site].patterns) + 1
    /\ outcome.which < Len(ClaimedOrder(site))
    /\ \E j \in 1..Len(Extractors[site].patterns) :
          Search(ClaimedOrder(site)[j], page.text).ok
    /\ \E j \in 1..(outcome.which - 1) :
          j > Len(Extractors[site].patterns) /\ Search(ClaimedOrder(site)[j], page.text).ok

\* C7: every record with dates has its start date not after its end date
C7_StartNotAfterEnd ==
    (Returns /\ outcome.dated) => DateLeq(outcome.start, outcome.end)

\* C8: a match with a recent year whose tokens are no date is treated as no
\* match: the extraction does not raise, and the site keeps its record
C8_ConversionFailureNotFatal ==
    (Returns /\ page.kind = "page") => outcome.kind = "record"

RECURSIVE RecordNames(_)
RecordNames(k) ==
    IF k = 0 THEN <<>>
    ELSE IF seen[k] = "record"
    THEN Append(RecordNames(k - 1), Extractors[k].name)
    ELSE RecordNames(k - 1)

====
